---- MODULE Spec2Model ----
(***************************************************************************)
(* Element-to-Document assembly of langchain-unstructured.                 *)
(*                                                                         *)
(*   _SingleDocumentLoader.lazy_load      (document_loaders.py)            *)
(*   UnstructuredPDFParser.lazy_parse      (parsers/pdf.py)                *)
(*   _UnstructuredDocumentParseur.lazy_parse (parsers/core.py)             *)
(*                                                                         *)
(* One behaviour is one run of one parser over one blob.  Python strings   *)
(* are TLA+ strings, Python lists are sequences, Python dicts are          *)
(* functions from key strings to values.                                   *)
(***************************************************************************)
EXTENDS Integers, Sequences, FiniteSets, TLC

VARIABLES
    parser,             \* which lazy_parse runs: "pdf" or "generic"
    mode_arg,           \* the `mode` argument the parser was constructed with
    mode,               \* self.mode (None: the constructor raised)
    byte_stream,        \* the blob holds bytes and has neither a path nor a source
    partition_via_api,  \* self.partition_via_api
    post_processors,    \* self.post_processors: names of str -> str callables
    extract_tables,     \* self.extract_tables
    source_elements,    \* element dicts the partitioning engine returns for the blob
    status_code,        \* response.status_code of the remote call (0: no call made)
    elements_json,      \* the list of element dicts the loop iterates over
    idx,                \* number of elements the loop has consumed
    file_metadata,      \* document-level metadata base of the running loop
    metadata,           \* loop variable `metadata` of the generic parser
    page_content,       \* PDF parser: fragments collected for the current output unit
    page_break,         \* PDF parser: pending page break flag
    page_number,        \* PDF parser: current page index
    docs,               \* Documents yielded so far, in order
    lock,               \* _SingleDocumentLoader._lock is held
    error,              \* exception that ended the run (NoError: none)
    pc,                 \* "start", "loop", "done", "error"
    requests,           \* calls of client.general.partition made so far
    multi_file,         \* the lazy_loads are the files of one UnstructuredLoader
    loader_files,       \* per _SingleDocumentLoader: its file and consuming thread
    gen_pc,             \* per lazy_load generator: where it stands
    gen_yielded,        \* per lazy_load generator: Documents yielded so far
    gen_stopped,        \* per lazy_load generator: its consumer requests no more
    loaded,             \* Documents the lazy_loads yielded, in order: <<loader, k>>
    table_args,         \* arguments of a call of convert_table
    table_result        \* what that call returned or raised (None: not called yet)

\* the state of the _SingleDocumentLoader instances and of their lazy_load generators
loaders == <<multi_file, loader_files, gen_pc, gen_yielded, gen_stopped, loaded>>

\* a call of the module-level function convert_table
tables == <<table_args, table_result>>

vars == <<parser, mode_arg, mode, byte_stream, partition_via_api, post_processors,
          extract_tables, source_elements, status_code, elements_json, idx,
          file_metadata, metadata, page_content, page_break, page_number, docs, lock,
          error, pc, requests, loaders, tables>>

---------------------------------------------------------------------------
(* Bounds *)

\* longest element list drawn for a blob (the fixed scenario list is drawn besides)
MaxLen == 3

\* number of _SingleDocumentLoader instances running against the shared lock
NLoaders == 2

\* most elements the file of one of these loaders holds
MaxDocs == 2

---------------------------------------------------------------------------
(* Python values *)

\* Python None (str(None) is the string "None", a different value)
None == "<None>"

\* truth value of a str-or-None value, as `or` and `if` test it
Truthy(v) == v /= None /\ v /= ""

\* a or b
Or(a, b) == IF Truthy(a) THEN a ELSE b

\* d.get(k)
Get(d, k) == IF k \in DOMAIN d THEN d[k] ELSE None

\* d | e, and d.update(e) as a value
Update(d, e) == [k \in DOMAIN d \cup DOMAIN e |-> IF k \in DOMAIN e THEN e[k] ELSE d[k]]

\* d after d.pop(k, None)
Pop(d, k) == [x \in DOMAIN d \ {k} |-> d[x]]

\* {k: v}
Dict1(k, v) == [x \in {k} |-> v]

\* {}
EmptyDict == [x \in {} |-> None]

\* metadata keys that hold an int; every other key holds a str or None
IntKeys == {"page_number", "page", "total_pages"}

\* sep.join(list)
RECURSIVE Join(_, _)
Join(sep, list) ==
    IF list = <<>> THEN ""
    ELSE IF Len(list) = 1 THEN list[1]
    ELSE list[1] \o sep \o Join(sep, Tail(list))

\* all sequences over S of length at most n
RECURSIVE SeqsUpTo(_, _)
SeqsUpTo(S, n) ==
    IF n = 0 THEN {<<>>}
    ELSE LET shorter == SeqsUpTo(S, n - 1)
         IN shorter \cup {Append(s, e) : s \in {t \in shorter : Len(t) = n - 1}, e \in S}

---------------------------------------------------------------------------
(* Inputs: element dicts as the partitioning engine returns them           *)
(* (element.to_dict() locally, the decoded JSON array remotely)            *)

Element(type, id, text, md) ==
    [type |-> type, category |-> None, element_id |-> id, text |-> text, metadata |-> md]

ElTitle     == Element("Title", "e-title", "Intro",
                       ("filename" :> "part.pdf" @@ "page_number" :> 1))
ElNarrative == Element("NarrativeText", "e-narr", "Hello", ("page_number" :> 1))
ElWorld     == Element("NarrativeText", "e-world", "World", EmptyDict)
ElPageBreak == Element("PageBreak", "e-pb", "", EmptyDict)
ElHeader    == Element("Header", "e-head", "Running head", ("page_number" :> 1))
ElFooter    == Element("Footer", "e-foot", "7", EmptyDict)
ElTable     == Element("Table", "e-table", "a b",
                       ("text_as_html" :> "<table><tr><td>a</td><td>b</td></tr></table>"))
ElImage     == Element("Image", "e-img", "", ("image_path" :> "figure-1-1.jpg"))
\* an Image whose rendered file the image parser cannot open
ElImageBad  == Element("Image", "e-img-bad", "", ("image_path" :> "missing.jpg"))
\* an element dict that carries a `category` besides its `type`, and a metadata
\* entry with an empty value
ElCategorized ==
    [Element("CompositeElement", "e-chunk", "Chunk",
             ("filename" :> "chunk.txt" @@ "subject" :> ""))
        EXCEPT !.category = "NarrativeText"]

\* an Image the image parser reads no text from, and one that was not rendered
ElImageBlank  == Element("Image", "e-img-blank", "", ("image_path" :> "blank.jpg"))
ElImageNoPath == Element("Image", "e-img-nopath", "", EmptyDict)
\* an element of the second page
ElPage2     == Element("NarrativeText", "e-p2", "Next", ("page_number" :> 2))

ElementPool ==
    {ElTitle, ElNarrative, ElPageBreak, ElHeader, ElFooter, ElTable, ElImage}

\* the elements drawn besides, around a failing image and a categorized element
ExtraPool == {ElNarrative, ElPageBreak, ElImageBad, ElCategorized}

\* [Title("Intro"), NarrativeText("Hello"), PageBreak, NarrativeText("World")]
Scenario == <<ElTitle, ElNarrative, ElPageBreak, ElWorld>>

\* and around images without text, and around elements with and without a page
ImagePool == {ElNarrative, ElPageBreak, ElImageBlank, ElImageNoPath}
PagePool == {ElWorld, ElPage2}

ElementLists ==
    SeqsUpTo(ElementPool, MaxLen) \cup SeqsUpTo(ExtraPool, MaxLen)
        \cup SeqsUpTo(ImagePool, MaxLen) \cup SeqsUpTo(PagePool, MaxLen) \cup {Scenario}

---------------------------------------------------------------------------
(* Configuration *)

\* default of the `pages_delimitor` argument
pages_delimitor == "\n\n"

\* the blob handed to lazy_parse: Blob.from_path(BlobPath), or Blob.from_data(bytes),
\* which has neither a path nor a source
BlobPath == "docs/a.pdf"
blob ==
    IF byte_stream
    THEN [path |-> None, source |-> None, mimetype |-> None, metadata |-> EmptyDict]
    ELSE [path |-> BlobPath, source |-> BlobPath, mimetype |-> "application/pdf",
          metadata |-> EmptyDict]

\* str -> str callables a caller may pass; a call is kept symbolic: f(s)
PostProcessor(f, s) == f \o "(" \o s \o ")"
PostProcessorLists == {<<>>, <<"clean">>}

\* values of self.extract_tables after __init__ ("xml" is no supported target)
ExtractTables == {None, "html", "xml"}

\* statuses the remote partition endpoint may answer with
StatusCodes == {200, 201, 500}

\* _valid_modes of the two constructors
_valid_modes == [pdf |-> {"single", "elements", "paged", "page"},
                 generic |-> {"single", "elements", "paged"}]

\* values a caller may pass as `mode` ("pages" is recognized by neither parser)
ModeArgs == {"single", "page", "paged", "elements", "pages"}

\* mutant: the mode is stored without the check
ConstructedMode_Unchecked(p, m) ==
    IF p = "pdf" /\ m = "paged" THEN "page" ELSE m

\* self.mode after __init__(mode=m) of parser p; None when __init__ raises
ConstructedMode(p, m) ==
    IF m \notin _valid_modes[p] THEN None
    ELSE IF p = "pdf" /\ m = "paged" THEN "page"
    ELSE m

\* the ValueError of the mode check; the message (its backquotes left out here)
\* goes on with the valid modes
ModeError(m) ==
    [type |-> "ValueError", message |-> "Got " \o m \o " for mode", status_code |-> 0]

---------------------------------------------------------------------------
(* Element Source *)

\* str(x) of a str-or-None value
Str(x) == IF x = None THEN "None" ELSE x

\* for post_processor in self.post_processors: element["text"] = post_processor(str(...))
RECURSIVE ApplyPostProcessors(_, _)
ApplyPostProcessors(pps, text) ==
    IF pps = <<>> THEN text
    ELSE ApplyPostProcessors(Tail(pps), PostProcessor(Head(pps), Str(text)))

_post_process_elements_json(pps, elements) ==
    [i \in DOMAIN elements |->
        [elements[i] EXCEPT !.text = ApplyPostProcessors(pps, elements[i].text)]]

\* no exception
NoError == [type |-> None, message |-> "", status_code |-> 0]

\* the ValueError of _elements_via_local for a file object without metadata_filename
FilenameError ==
    [type |-> "ValueError",
     message |-> "If partitioning a fileIO object, metadata_filename must be specified"
                 \o " as well.",
     status_code |-> 0]

\* self.file.name on the io.BytesIO of a blob of bytes
NoNameError ==
    [type |-> "AttributeError",
     message |-> "'_io.BytesIO' object has no attribute 'name'", status_code |-> 0]

\* mutant: every 2xx status is taken for success
_elements_via_api_Any2xx(sc, body) ==
    IF sc \div 100 = 2
    THEN [ok |-> TRUE, elements |-> body, error |-> NoError]
    ELSE [ok |-> FALSE, elements |-> <<>>,
          error |-> [type |-> "ValueError",
                     message |-> "Receive unexpected status code " \o ToString(sc)
                                 \o " from the API.",
                     status_code |-> sc]]

\* outcome of _elements_via_api for a response with status `sc`
_elements_via_api(sc, body) ==
    IF sc = 200
    THEN [ok |-> TRUE, elements |-> body, error |-> NoError]
    ELSE [ok |-> FALSE, elements |-> <<>>,
          error |-> [type |-> "ValueError",
                     message |-> "Receive unexpected status code " \o ToString(sc)
                                 \o " from the API.",
                     status_code |-> sc]]

\* elements_json as lazy_load / lazy_parse bind it, from a retrieved element list
PostProcessed(pps, elements) ==
    IF pps /= <<>> THEN _post_process_elements_json(pps, elements) ELSE elements

---------------------------------------------------------------------------
(* Metadata Normalizer *)

\* _purge_metadata of langchain_community on the values used here: a value that is
\* neither str nor int becomes its str(); str and int values are kept
_purge_metadata(md) == [k \in DOMAIN md |-> IF k \in IntKeys THEN md[k] ELSE Str(md[k])]

\* _SinglePDFDocumentLoader._get_metadata(): what pdfminer reads from the blob's file
_get_metadata == ("filename" :> "a.pdf" @@ "producer" :> "pdfTeX" @@ "total_pages" :> 2)

\* doc_metadata of UnstructuredPDFParser.lazy_parse
doc_metadata ==
    _purge_metadata(Update(_get_metadata,
        ("source" :> blob.source @@ "file_directory" :> "docs"
         @@ "filename" :> "a.pdf" @@ "filetype" :> blob.mimetype)))

\* the element dict after the loop body of lazy_load ran on it
ElementAfterLoad(element) ==
    [element EXCEPT !.metadata = Pop(@, "filename")]

\* mutant: the element's filename is not removed before the merge
LoadedDocument_KeepFilename(fm, element) ==
    LET m1 == Update(fm, element.metadata)
        m2 == Update(m1, Dict1("category", Or(element.category, element.type)))
        m3 == Update(m2, Dict1("element_id", element.element_id))
    IN  [page_content |-> element.text, metadata |-> m3]

\* the Document the loop body of lazy_load yields for `element`
LoadedDocument(fm, element) ==
    LET element_metadata == Pop(element.metadata, "filename")
        m1 == Update(fm, element_metadata)
        m2 == Update(m1, Dict1("category", Or(element.category, element.type)))
        m3 == Update(m2, Dict1("element_id", element.element_id))
    IN  [page_content |-> element.text, metadata |-> m3]

---------------------------------------------------------------------------
(* Table Renderer and Image Text Substituter, as lazy_parse uses them *)

\* UnstructuredPDFParser._convert_table; markdownify and pandas calls kept symbolic
_convert_table(et, html_table) ==
    IF ~Truthy(et) THEN [ok |-> TRUE, text |-> ""]
    ELSE IF ~Truthy(html_table) THEN [ok |-> TRUE, text |-> ""]
    ELSE IF et = "html" THEN [ok |-> TRUE, text |-> html_table]
    ELSE IF et = "markdown" THEN [ok |-> TRUE, text |-> "md(" \o html_table \o ")"]
    ELSE IF et = "csv" THEN [ok |-> TRUE, text |-> "to_csv(" \o html_table \o ")"]
    ELSE [ok |-> FALSE, text |-> "extract_tables must be csv, markdown or html"]

\* next(self.images_parser.lazy_parse(blob)).page_content: the text the image
\* parser recognizes in the rendered image at `image_path`
images_parser(image_path) == IF image_path = "figure-1-1.jpg" THEN "ocr text" ELSE ""

\* _format_inner_image(blob, image_text, "text")
_format_inner_image(image_text) == image_text

\* the image parser can open the file at `image_path`
ImageReadable(image_path) == image_path /= "missing.jpg"

\* mutant: an image that cannot be read is passed over
Failure_SkipImage(doc, et) ==
    LET category == Get(doc.metadata, "category")
        table == _convert_table(et, Get(doc.metadata, "text_as_html"))
    IN  IF category = "Table" /\ ~table.ok
        THEN [type |-> "ValueError", message |-> table.text, status_code |-> 0]
        ELSE NoError

\* the exception the Image or Table branch of the loop body raises on `doc`
\* (NoError: none)
Failure(doc, et) ==
    LET category == Get(doc.metadata, "category")
        table == _convert_table(et, Get(doc.metadata, "text_as_html"))
    IN  IF category = "Image" /\ "image_path" \in DOMAIN doc.metadata
           /\ ~ImageReadable(doc.metadata["image_path"])
        THEN [type |-> "FileNotFoundError", message |-> doc.metadata["image_path"],
              status_code |-> 0]
        ELSE IF category = "Table" /\ ~table.ok
        THEN [type |-> "ValueError", message |-> table.text, status_code |-> 0]
        ELSE NoError

\* mutant: the element list is retrieved once more for post-processing
PartitionCalls_PerUse(via_api, pps) ==
    IF ~via_api THEN 0 ELSE IF pps /= <<>> THEN 2 ELSE 1

\* how often `elements_json = post_process(retrieve()) if post_processors else
\* retrieve()` calls the remote endpoint
PartitionCalls(via_api, pps) == IF via_api THEN 1 ELSE 0

\* convert_table is not called
TablesIdle ==
    /\ table_args = None
    /\ table_result = None

\* no _SingleDocumentLoader is driven from outside the parser
LoadersIdle ==
    /\ multi_file = FALSE
    /\ loader_files = <<>>
    /\ gen_pc = <<>>
    /\ gen_yielded = <<>>
    /\ gen_stopped = <<>>
    /\ loaded = <<>>

---------------------------------------------------------------------------
(* Initial states: a constructed parser, a blob, and what the element      *)
(* source will return for it                                               *)

Init ==
    /\ parser \in {"pdf", "generic"}
    /\ mode_arg \in ModeArgs
    /\ mode = ConstructedMode(parser, mode_arg)
    /\ IF mode = None
       THEN \* __init__ raised: there is no parser, and nothing to parse with it
            /\ byte_stream = FALSE
            /\ partition_via_api = FALSE
            /\ post_processors = <<>>
            /\ extract_tables = None
            /\ source_elements = <<>>
            /\ error = ModeError(mode_arg)
            /\ pc = "error"
       ELSE /\ partition_via_api \in BOOLEAN
            /\ post_processors \in PostProcessorLists
            /\ extract_tables \in (IF parser = "pdf" THEN ExtractTables ELSE {None})
            /\ source_elements \in ElementLists
            \* a blob of bytes is given to the parsers that extract locally
            /\ byte_stream \in (IF ~partition_via_api /\ post_processors = <<>>
                                    /\ extract_tables = None
                                 THEN BOOLEAN ELSE {FALSE})
            /\ error = NoError
            /\ pc = "start"
    /\ status_code = 0
    /\ elements_json = <<>>
    /\ idx = 0
    /\ file_metadata = EmptyDict
    /\ metadata = EmptyDict
    /\ page_content = <<>>
    /\ page_break = FALSE
    /\ page_number = 0
    /\ docs = <<>>
    /\ lock = FALSE
    /\ requests = 0
    /\ LoadersIdle
    /\ TablesIdle

config == <<parser, mode_arg, mode, byte_stream, partition_via_api, post_processors,
            extract_tables, source_elements>>

---------------------------------------------------------------------------
(* _SingleDocumentLoader.lazy_load driven by UnstructuredPDFParser.lazy_parse *)

\* first next(): doc_metadata is built, lazy_load takes the lock and retrieves the
\* elements (one remote call, or the local partition call), post-processes them and
\* builds file_metadata
PdfRetrieve ==
    /\ parser = "pdf" /\ pc = "start"
    /\ IF byte_stream
       THEN \* _get_metadata reads self.file.name of the BytesIO of the blob's bytes
            /\ error' = NoNameError
            /\ pc' = "error"
            /\ UNCHANGED <<status_code, requests, elements_json, file_metadata, metadata,
                           lock>>
       ELSE \E sc \in (IF partition_via_api THEN StatusCodes ELSE {0}) :
         LET got == IF partition_via_api
                    THEN _elements_via_api(sc, source_elements)
                    ELSE [ok |-> TRUE, elements |-> source_elements, error |-> NoError]
         IN  /\ status_code' = sc
             /\ requests' = requests + PartitionCalls(partition_via_api, post_processors)
             /\ metadata' = doc_metadata
             /\ IF got.ok
                THEN /\ elements_json' = PostProcessed(post_processors, got.elements)
                     /\ file_metadata' = _purge_metadata(_get_metadata)
                     /\ lock' = TRUE
                     /\ pc' = "loop"
                     /\ UNCHANGED error
                ELSE /\ error' = got.error
                     /\ lock' = FALSE
                     /\ pc' = "error"
                     /\ UNCHANGED <<elements_json, file_metadata>>
    /\ UNCHANGED <<config, idx, page_content, page_break, page_number, docs,
                   loaders, tables>>

\* mutant: PageBreak elements are skipped
LoaderYield_SkipPageBreak(fm, element) ==
    IF Or(element.category, element.type) = "PageBreak" THEN <<>>
    ELSE <<LoadedDocument(fm, element)>>

\* what the loop body of lazy_load yields for one element
LoaderYield(fm, element) == <<LoadedDocument(fm, element)>>

\* mutant: the Header branch is missing, a Header falls through to the text branch
Fragment_KeepHeader(doc, et) ==
    LET category == Get(doc.metadata, "category")
    IN  IF category = "Image"
        THEN IF "image_path" \in DOMAIN doc.metadata
                /\ Truthy(images_parser(doc.metadata["image_path"]))
             THEN <<_format_inner_image(images_parser(doc.metadata["image_path"]))>>
             ELSE <<>>
        ELSE IF category = "Table"
        THEN <<_convert_table(et, Get(doc.metadata, "text_as_html")).text>>
        ELSE IF category = "Title" THEN <<"# " \o doc.page_content>>
        ELSE IF category \in {"Footer", "PageBreak"} THEN <<>>
        ELSE <<doc.page_content>>

\* what one pass of the `for doc in lazy_load()` body appends to page_content after
\* the pending delimiter: nothing or one fragment
Fragment(doc, et) ==
    LET category == Get(doc.metadata, "category")
    IN  IF category = "Image"
        THEN IF "image_path" \in DOMAIN doc.metadata
                /\ Truthy(images_parser(doc.metadata["image_path"]))
             THEN <<_format_inner_image(images_parser(doc.metadata["image_path"]))>>
             ELSE <<>>
        ELSE IF category = "Table"
        THEN <<_convert_table(et, Get(doc.metadata, "text_as_html")).text>>
        ELSE IF category = "Title" THEN <<"# " \o doc.page_content>>
        ELSE IF category \in {"Header", "Footer", "PageBreak"} THEN <<>>
        ELSE <<doc.page_content>>

\* the pending delimiter the top of the loop body appends
Pending(pb) == IF pb THEN <<pages_delimitor>> ELSE <<>>

\* mutant: pages are numbered from 1
PageDocument_OneBased(content, n) ==
    [page_content |-> Join("\n", content),
     metadata |-> Update(metadata, Dict1("page", n + 1))]

\* Document(page_content="\n".join(page_content), metadata=doc_metadata | {"page": n});
\* the local doc_metadata is held in the variable `metadata`
PageDocument(content, n) ==
    [page_content |-> Join("\n", content),
     metadata |-> Update(metadata, Dict1("page", n))]

\* Document(page_content="\n".join(page_content), metadata=doc_metadata)
SingleDocument(content) ==
    [page_content |-> Join("\n", content), metadata |-> metadata]

\* mutant: the page is written into doc_metadata itself
AfterPageDocument_InPlace(md, n) == Update(md, Dict1("page", n))

\* doc_metadata after `doc_metadata | {"page": n}` was evaluated: `|` builds a new
\* dict and leaves its operands as they are
AfterPageDocument(md, n) == md

\* mutant: the last page is flushed whether or not anything was collected
FinalFlush_Always(m, content, n) ==
    IF m = "single" THEN <<SingleDocument(content)>>
    ELSE <<PageDocument(content, n)>>

\* mutant: the guard of the page-mode flush is applied in single mode too
FinalFlush_SkipEmpty(m, content, n) ==
    IF content = <<>> THEN <<>>
    ELSE IF m = "single" THEN <<SingleDocument(content)>>
    ELSE <<PageDocument(content, n)>>

\* what lazy_parse yields after the loop
FinalFlush(m, content, n) ==
    IF m = "single" THEN <<SingleDocument(content)>>
    ELSE IF content /= <<>> THEN <<PageDocument(content, n)>>
    ELSE <<>>

\* the Documents lazy_parse yields in page or single mode from `elements` on, when
\* no element fails: the loop body per element, then the final flush
RECURSIVE Assembled(_, _, _, _, _, _, _)
Assembled(m, fm, et, elements, content, pb, n) ==
    IF elements = <<>> THEN FinalFlush(m, content, n)
    ELSE LET doc == LoadedDocument(fm, Head(elements))
             category == Get(doc.metadata, "category")
             collected == content \o Pending(pb) \o Fragment(doc, et)
         IN  IF category = "PageBreak" /\ m \in {"page", "paged"}
             THEN <<PageDocument(collected, n)>>
                      \o Assembled(m, fm, et, Tail(elements), <<>>, FALSE, n + 1)
             ELSE Assembled(m, fm, et, Tail(elements), collected,
                            category = "PageBreak", n)

\* lazy_parse of the PDF parser in page or single mode, on a whole element list
lazy_parse(m, fm, et, elements) == Assembled(m, fm, et, elements, <<>>, FALSE, 0)

\* one element: lazy_load yields its Document; in elements mode lazy_parse yields it
\* on, in page and single mode the loop body folds it into page_content
PdfElement ==
    /\ parser = "pdf" /\ pc = "loop" /\ idx < Len(elements_json)
    /\ LET element == elements_json[idx + 1]
           yielded == LoaderYield(file_metadata, element)
           doc == yielded[1]
           category == Get(doc.metadata, "category")
           failure == Failure(doc, extract_tables)
           collected == page_content \o Pending(page_break) \o Fragment(doc, extract_tables)
       IN  /\ elements_json' = [elements_json EXCEPT ![idx + 1] = ElementAfterLoad(element)]
           /\ idx' = idx + 1
           /\ IF mode = "elements"
              THEN /\ docs' = docs \o yielded
                   /\ UNCHANGED <<page_content, page_break, page_number, metadata, lock,
                                  error, pc>>
              ELSE IF yielded = <<>>
              THEN UNCHANGED <<page_content, page_break, page_number, docs, metadata, lock,
                               error, pc>>
              ELSE IF failure /= NoError
              THEN \* the exception leaves lazy_parse while lazy_load is suspended at
                   \* its yield inside `with _lock`: nothing releases the lock here
                   /\ error' = failure
                   /\ pc' = "error"
                   /\ page_content' = page_content \o Pending(page_break)
                   /\ page_break' = FALSE
                   /\ UNCHANGED <<page_number, docs, metadata, lock>>
              ELSE IF category = "PageBreak" /\ mode \in {"page", "paged"}
              THEN /\ docs' = Append(docs, PageDocument(collected, page_number))
                   /\ metadata' = AfterPageDocument(metadata, page_number)
                   /\ page_content' = <<>>
                   /\ page_number' = page_number + 1
                   /\ page_break' = FALSE
                   /\ UNCHANGED <<lock, error, pc>>
              ELSE /\ page_content' = collected
                   /\ page_break' = (category = "PageBreak")
                   /\ UNCHANGED <<page_number, docs, metadata, lock, error, pc>>
    /\ UNCHANGED <<config, status_code, file_metadata, requests, loaders, tables>>

\* the element list is exhausted: lazy_load ends and releases the lock, then the
\* final flush of lazy_parse
PdfFinish ==
    /\ parser = "pdf" /\ pc = "loop" /\ idx = Len(elements_json)
    /\ lock' = FALSE
    /\ pc' = "done"
    /\ docs' = IF mode = "elements" THEN docs
               ELSE docs \o FinalFlush(mode, page_content, page_number)
    /\ metadata' = IF mode = "page" /\ page_content /= <<>>
                   THEN AfterPageDocument(metadata, page_number)
                   ELSE metadata
    /\ UNCHANGED <<config, status_code, elements_json, idx, file_metadata,
                   page_content, page_break, page_number, error, requests, loaders, tables>>

---------------------------------------------------------------------------
(* _UnstructuredDocumentParseur.lazy_parse (the generic parser) *)

\* order in which an element's metadata dict lists its keys
KeyOrder == <<"filename", "page_number", "text_as_html", "image_path", "subject">>

\* repr() of a metadata value
ReprValue(k, v) == IF k \in IntKeys THEN ToString(v) ELSE "'" \o v \o "'"

RECURSIVE ReprItems(_, _)
ReprItems(d, keys) ==
    IF keys = <<>> THEN <<>>
    ELSE (IF Head(keys) \in DOMAIN d
          THEN <<"'" \o Head(keys) \o "': " \o ReprValue(Head(keys), d[Head(keys)])>>
          ELSE <<>>) \o ReprItems(d, Tail(keys))

\* str(element) of an element dict
StrElement(element) ==
    "{'type': '" \o element.type
    \o (IF element.category = None THEN ""
        ELSE "', 'category': '" \o element.category)
    \o "', 'element_id': '" \o element.element_id
    \o "', 'text': '" \o element.text \o "', 'metadata': {"
    \o Join(", ", ReprItems(element.metadata, KeyOrder)) \o "}}"

\* metadata = {**blob.metadata, **{"source": blob.source}}
BlobMetadata == Update(blob.metadata, Dict1("source", blob.source))

\* the elements are retrieved (one remote call, or the local partition call) and
\* post-processed, and the metadata base is built
GenericRetrieve ==
    /\ parser = "generic" /\ pc = "start"
    /\ \E sc \in (IF partition_via_api THEN StatusCodes ELSE {0}) :
         LET got == IF partition_via_api
                    THEN _elements_via_api(sc, source_elements)
                    ELSE [ok |-> TRUE, elements |-> source_elements, error |-> NoError]
         IN  /\ status_code' = sc
             /\ requests' = requests + PartitionCalls(partition_via_api, post_processors)
             /\ IF got.ok
                THEN /\ elements_json' = PostProcessed(post_processors, got.elements)
                     /\ metadata' = BlobMetadata
                     /\ pc' = "loop"
                     /\ UNCHANGED error
                ELSE /\ error' = got.error
                     /\ pc' = "error"
                     /\ UNCHANGED <<elements_json, metadata>>
    /\ UNCHANGED <<config, idx, file_metadata, page_content, page_break, page_number,
                   docs, lock, loaders, tables>>

\* mutant: the element's filename is dropped, as _SingleDocumentLoader does
ElementMetadata_PopFilename(md, element) ==
    LET m1 == Update(md, Pop(element.metadata, "filename"))
        m2 == Update(m1, Dict1("category", Or(element.category, element.type)))
    IN  Update(m2, Dict1("element_id", element.element_id))

\* `metadata` after the body of the elements-mode loop ran on `element`
ElementMetadata(md, element) ==
    LET m1 == Update(md, element.metadata)
        m2 == Update(m1, Dict1("category", Or(element.category, element.type)))
    IN  Update(m2, Dict1("element_id", element.element_id))

\* elements mode, one element
GenericElement ==
    /\ parser = "generic" /\ pc = "loop" /\ mode = "elements"
    /\ idx < Len(elements_json)
    /\ LET element == elements_json[idx + 1]
       IN  /\ metadata' = ElementMetadata(metadata, element)
           /\ docs' = Append(docs, [page_content |-> StrElement(element),
                                    metadata |-> metadata'])
    /\ idx' = idx + 1
    /\ UNCHANGED <<config, status_code, elements_json, file_metadata, page_content,
                   page_break, page_number, lock, error, pc, requests, loaders, tables>>

\* single mode: one Document for the whole list
GenericSingle ==
    /\ parser = "generic" /\ pc = "loop" /\ mode = "single"
    /\ docs' = Append(docs,
          [page_content |-> Join("\n\n", [i \in DOMAIN elements_json |->
                                              StrElement(elements_json[i])]),
           metadata |-> metadata])
    /\ idx' = Len(elements_json)
    /\ pc' = "done"
    /\ UNCHANGED <<config, status_code, elements_json, file_metadata, metadata,
                   page_content, page_break, page_number, lock, error, requests,
                   loaders, tables>>

\* the loop of paged mode over `elements`, from the metadata `md` the iteration
\* before left and the pages collected so far (text_dict and meta_dict, in the
\* order the pages were first seen)
RECURSIVE PagedLoop(_, _, _)
PagedLoop(elements, md, pages) ==
    IF elements = <<>> THEN [metadata |-> md, pages |-> pages]
    ELSE LET element == Head(elements)
             m == Update(md, element.metadata)
             pn == IF "page_number" \in DOMAIN m THEN m["page_number"] ELSE 1
             known == {i \in DOMAIN pages : pages[i].page_number = pn}
             k == CHOOSE i \in known : TRUE
         IN  PagedLoop(Tail(elements), m,
                 IF known = {}
                 THEN Append(pages, [page_number |-> pn,
                                     text |-> StrElement(element) \o "\n\n",
                                     metadata |-> m])
                 ELSE [pages EXCEPT ![k] =
                          [page_number |-> pn,
                           text |-> @.text \o StrElement(element) \o "\n\n",
                           metadata |-> Update(@.metadata, m)]])

\* paged mode: the pages are collected over the whole list, then one Document per
\* page is yielded
GenericPaged ==
    /\ parser = "generic" /\ pc = "loop" /\ mode = "paged"
    /\ LET collected == PagedLoop(elements_json, metadata, <<>>)
       IN  /\ metadata' = collected.metadata
           /\ docs' = docs \o [i \in DOMAIN collected.pages |->
                                  [page_content |-> collected.pages[i].text,
                                   metadata |-> collected.pages[i].metadata]]
    /\ idx' = Len(elements_json)
    /\ pc' = "done"
    /\ UNCHANGED <<config, status_code, elements_json, file_metadata, page_content,
                   page_break, page_number, lock, error, requests, loaders, tables>>

\* elements mode: the list is exhausted
GenericFinish ==
    /\ parser = "generic" /\ pc = "loop" /\ mode = "elements"
    /\ idx = Len(elements_json)
    /\ pc' = "done"
    /\ UNCHANGED <<config, status_code, elements_json, idx, file_metadata, metadata,
                   page_content, page_break, page_number, docs, lock, error, requests,
                   loaders, tables>>

---------------------------------------------------------------------------
(* _SingleDocumentLoader.lazy_load generators on the class-level lock, each *)
(* driven by a consumer thread, or all by one UnstructuredLoader.lazy_load  *)
(* over a list of files.  A generator runs only inside a next() call of its *)
(* consumer; between two calls it is suspended at its yield.                *)

Loaders == 1..NLoaders

\* consumer threads
Threads == {"t1", "t2"}

\* the state of the parser run of the first part, which stays as constructed here
parser_run == <<config, status_code, elements_json, idx, file_metadata, metadata,
                page_content, page_break, page_number, docs, error, pc, requests>>

ParserIdle ==
    /\ parser = "none" /\ mode_arg = None /\ mode = None /\ byte_stream = FALSE
    /\ partition_via_api = FALSE
    /\ post_processors = <<>> /\ extract_tables = None /\ source_elements = <<>>
    /\ status_code = 0 /\ elements_json = <<>> /\ idx = 0
    /\ file_metadata = EmptyDict /\ metadata = EmptyDict
    /\ page_content = <<>> /\ page_break = FALSE /\ page_number = 0
    /\ docs = <<>> /\ error = NoError /\ pc = "start" /\ requests = 0

\* per loader: the number of elements of its file, whether retrieving them raises
\* (extraction error, or a remote status other than 200), and the consuming thread;
\* the files of one UnstructuredLoader are consumed by one thread
LoadersInit ==
    /\ multi_file \in BOOLEAN
    /\ loader_files \in [Loaders -> [elements : 0..MaxDocs, raises : BOOLEAN,
                                     thread : Threads]]
    /\ multi_file => \A l \in Loaders : loader_files[l].thread = "t1"
    /\ gen_pc = [l \in Loaders |-> "created"]
    /\ gen_yielded = [l \in Loaders |-> 0]
    /\ gen_stopped = [l \in Loaders |-> FALSE]
    /\ loaded = <<>>
    /\ lock = FALSE
    /\ ParserIdle
    /\ TablesIdle

\* thread t is inside a next() call: waiting for the lock, or retrieving
ThreadInNext(t) ==
    \E l \in Loaders :
        loader_files[l].thread = t /\ gen_pc[l] \in {"blocked", "retrieving"}

\* mutant: a file that raised is passed over and the next file is loaded
Turn_SkipFailed(l) ==
    multi_file => \A k \in 1..(l - 1) : gen_pc[k] \in {"finished", "raised"}

\* for f_path in self.file_path: yield from load_file(f_path=f_path): the
\* lazy_load of a file starts when the one of the file before is exhausted
Turn(l) == multi_file => \A k \in 1..(l - 1) : gen_pc[k] = "finished"

\* the consumer of loader l can call next() on its generator
CanRequest(l) ==
    /\ ~gen_stopped[l]
    /\ ~ThreadInNext(loader_files[l].thread)
    /\ Turn(l)

\* mutant: the lock is taken whether or not it is held
LockFree_Always(held) == TRUE

\* threading.Lock: acquire succeeds only on a lock that is not held, whichever
\* thread holds it
LockFree(held) == ~held

\* first next(): the generator starts and reaches `with _SingleDocumentLoader._lock`
Enter(l) ==
    /\ gen_pc[l] = "created" /\ CanRequest(l)
    /\ IF LockFree(lock)
       THEN /\ lock' = TRUE
            /\ gen_pc' = [gen_pc EXCEPT ![l] = "retrieving"]
       ELSE /\ gen_pc' = [gen_pc EXCEPT ![l] = "blocked"]
            /\ UNCHANGED lock
    /\ UNCHANGED <<multi_file, loader_files, gen_yielded, gen_stopped, loaded, parser_run, tables>>

\* the lock was released while the thread waited in acquire
Acquire(l) ==
    /\ gen_pc[l] = "blocked" /\ LockFree(lock)
    /\ lock' = TRUE
    /\ gen_pc' = [gen_pc EXCEPT ![l] = "retrieving"]
    /\ UNCHANGED <<multi_file, loader_files, gen_yielded, gen_stopped, loaded, parser_run, tables>>

\* elements_json and file_metadata are built; the retrieval raises, or the loop
\* finds no element, or it yields the first Document and stays inside `with`
Retrieve(l) ==
    /\ gen_pc[l] = "retrieving"
    /\ IF loader_files[l].raises
       THEN /\ gen_pc' = [gen_pc EXCEPT ![l] = "raised"]
            /\ lock' = FALSE
            /\ UNCHANGED <<gen_yielded, loaded>>
       ELSE IF loader_files[l].elements = 0
       THEN /\ gen_pc' = [gen_pc EXCEPT ![l] = "finished"]
            /\ lock' = FALSE
            /\ UNCHANGED <<gen_yielded, loaded>>
       ELSE /\ gen_pc' = [gen_pc EXCEPT ![l] = "suspended"]
            /\ gen_yielded' = [gen_yielded EXCEPT ![l] = 1]
            /\ loaded' = Append(loaded, <<l, 1>>)
            /\ UNCHANGED lock
    /\ UNCHANGED <<multi_file, loader_files, gen_stopped, parser_run, tables>>

\* a later next(): the loop yields the next Document, or ends and leaves `with`
Resume(l) ==
    /\ gen_pc[l] = "suspended" /\ CanRequest(l)
    /\ IF gen_yielded[l] < loader_files[l].elements
       THEN /\ gen_yielded' = [gen_yielded EXCEPT ![l] = @ + 1]
            /\ loaded' = Append(loaded, <<l, gen_yielded[l] + 1>>)
            /\ UNCHANGED <<gen_pc, lock>>
       ELSE /\ gen_pc' = [gen_pc EXCEPT ![l] = "finished"]
            /\ lock' = FALSE
            /\ UNCHANGED <<gen_yielded, loaded>>
    /\ UNCHANGED <<multi_file, loader_files, gen_stopped, parser_run, tables>>

\* the consumer decides to request no further Document; it keeps the generator
Stop(l) ==
    /\ gen_pc[l] = "suspended" /\ ~gen_stopped[l]
    /\ gen_stopped' = [gen_stopped EXCEPT ![l] = TRUE]
    /\ UNCHANGED <<multi_file, loader_files, gen_pc, gen_yielded, loaded, lock, parser_run, tables>>

\* the generator is closed, by close() or when the interpreter finalizes it:
\* GeneratorExit at the yield leaves `with`.  Whether and when this happens after
\* the consumer stopped is up to the consumer and the garbage collector
Close(l) ==
    /\ gen_pc[l] = "suspended" /\ gen_stopped[l]
    /\ gen_pc' = [gen_pc EXCEPT ![l] = "closed"]
    /\ lock' = FALSE
    /\ UNCHANGED <<multi_file, loader_files, gen_yielded, gen_stopped, loaded, parser_run, tables>>

LoadersNext ==
    \E l \in Loaders :
        \/ Enter(l) \/ Acquire(l) \/ Retrieve(l)
        \/ Resume(l) \/ Stop(l) \/ Close(l)

LoadersSpec == LoadersInit /\ [][LoadersNext]_vars

---------------------------------------------------------------------------
---------------------------------------------------------------------------
(* convert_table(html, content_conversion_ind, all_cols_alignment), step by *)
(* step.  A markup is held together with what BeautifulSoup makes of it:    *)
(* whether it has any tag, and its <tr> rows with their <th> and <td> cells *)

Markup(html, tags, rows) == [html |-> html, tags |-> tags, rows |-> rows]

Tr(th, td) == [th |-> th, td |-> td]

Markups ==
    { Markup("", FALSE, <<>>),
      Markup("a b", FALSE, <<>>),
      Markup("<p>a</p>", TRUE, <<>>),
      Markup("<table></table>", TRUE, <<>>),
      Markup("<table><tr><td>a</td><td>b</td></tr></table>", TRUE,
             <<Tr(<<>>, <<"a", "b">>)>>),
      Markup("<table><tr><th>h</th></tr><tr><td>a|b</td></tr></table>", TRUE,
             <<Tr(<<"h">>, <<>>), Tr(<<>>, <<"a|b">>)>>),
      Markup("<table><tr><th>h</th></tr></table>", TRUE, <<Tr(<<"h">>, <<>>)>>),
      Markup("<table><tr><td><b>a</b></td></tr><tr><td></td></tr></table>", TRUE,
             <<Tr(<<>>, <<"<b>a</b>">>), Tr(<<>>, <<"">>)>>) }

\* values a caller may pass as all_cols_alignment
Alignments == {"left", "center", "right", "center-ish", "LEFT"}

alignment_options == ("left" :> " :--- " @@ "center" :> " :---: " @@ "right" :> " ---: ")

\* mutant: every alignment passes the check
ValidAlignment_Any(all_cols_alignment) == TRUE

\* all_cols_alignment in alignment_options.keys()
ValidAlignment(all_cols_alignment) == all_cols_alignment \in DOMAIN alignment_options

AlignmentError ==
    [type |-> "ValueError",
     message |-> "Invalid alignment option for 'all_cols_alignment' arg. "
                 \o "Expected one of: ['left', 'center', 'right']",
     status_code |-> 0]

NoTrError == [type |-> "ValueError", message |-> "No 'tr' tag found", status_code |-> 0]

\* alignment_options[all_cols_alignment] on a key the dict does not have
AlignmentKeyError(all_cols_alignment) ==
    [type |-> "KeyError", message |-> "'" \o all_cols_alignment \o "'", status_code |-> 0]

\* markdownify(value), on the cell contents used here
md(value) == IF value = "<b>a</b>" THEN "**a**" ELSE value

\* value.replace("|", "&#124;").replace("\n", "<br>"), on the cell contents used here
ReplaceChars(value) == IF value = "a|b" THEN "a&#124;b" ELSE value

_transform_cell_content(value, conversion_ind) ==
    ReplaceChars(IF value /= "" /\ conversion_ind THEN md(value) ELSE value)

\* [" " + _transform_cell_content(cell, ...) + " " for cell in cells]
Cells(cells, conversion_ind) ==
    [i \in DOMAIN cells |-> " " \o _transform_cell_content(cells[i], conversion_ind) \o " "]

\* n copies of x
Times(x, n) == [i \in 1..n |-> x]

\* the call as it is entered
TableCalled ==
    [pc |-> "called", parsed |-> FALSE, table_headings |-> <<>>, table_tr |-> <<>>,
     table_body |-> <<>>, rows |-> 0, value |-> None, error |-> NoError]

TableInit ==
    /\ table_args \in [html : Markups, content_conversion_ind : BOOLEAN,
                        all_cols_alignment : Alignments]
    /\ table_result = TableCalled
    /\ lock = FALSE
    /\ ParserIdle
    /\ LoadersIdle

\* if all_cols_alignment not in alignment_options.keys(): raise ValueError(...)
CheckAlignment ==
    /\ table_result.pc = "called"
    /\ table_result' =
          IF ValidAlignment(table_args.all_cols_alignment)
          THEN [table_result EXCEPT !.pc = "checked"]
          ELSE [table_result EXCEPT !.pc = "raised", !.error = AlignmentError]
    /\ UNCHANGED <<table_args, lock, parser_run, loaders>>

\* soup = BeautifulSoup(html, "html.parser"); if not soup.find(): return html;
\* table_tr = soup.find_all("tr")
ParseMarkup ==
    /\ table_result.pc = "checked"
    /\ table_result' =
          IF ~table_args.html.tags
          THEN [table_result EXCEPT !.pc = "returned", !.parsed = TRUE,
                                    !.value = table_args.html.html]
          ELSE [table_result EXCEPT !.pc = "parsed", !.parsed = TRUE,
                                    !.table_tr = table_args.html.rows]
    /\ UNCHANGED <<table_args, lock, parser_run, loaders>>

\* table_headings from the <th> cells of the first <tr>; without any <tr>,
\* soup.find("tr") is None and the AttributeError becomes a ValueError
Headings ==
    /\ table_result.pc = "parsed"
    /\ table_result' =
          IF table_args.html.rows = <<>>
          THEN [table_result EXCEPT !.pc = "raised", !.error = NoTrError]
          ELSE LET table_headings == Cells(table_args.html.rows[1].th,
                                           table_args.content_conversion_ind)
               IN  [table_result EXCEPT
                       !.pc = "rows",
                       !.table_headings = table_headings,
                       !.table_tr = IF table_headings /= <<>> THEN Tail(@) ELSE @]
    /\ UNCHANGED <<table_args, lock, parser_run, loaders>>

\* for tr in table_tr: table_body.append(td_list)
Row ==
    /\ table_result.pc = "rows"
    /\ table_result.rows < Len(table_result.table_tr)
    /\ table_result' =
          [table_result EXCEPT
              !.rows = @ + 1,
              !.table_body = Append(@, Cells(table_result.table_tr[table_result.rows + 1].td,
                                             table_args.content_conversion_ind))]
    /\ UNCHANGED <<table_args, lock, parser_run, loaders>>

\* md_table_header and md_table are joined and returned
Render ==
    /\ table_result.pc = "rows"
    /\ table_result.rows = Len(table_result.table_tr)
    /\ LET table_headings == table_result.table_headings
           table_body == table_result.table_body
           table == (IF table_headings /= <<>> THEN <<table_headings>> ELSE <<>>)
                        \o table_body
           alignment == table_args.all_cols_alignment
           md_table_header ==
               Join("|", <<"">>
                         \o (IF table_headings = <<>> THEN Times(" ", Len(table[1]))
                             ELSE table_headings)
                         \o <<"\n">>
                         \o Times(alignment_options[alignment], Len(table[1]))
                         \o <<"\n">>)
           md_rows == [i \in DOMAIN table_body |->
                          Join("|", <<"">> \o table_body[i] \o <<"\n">>)]
       IN  table_result' =
             IF alignment \notin DOMAIN alignment_options
             THEN [table_result EXCEPT !.pc = "raised",
                                       !.error = AlignmentKeyError(alignment)]
             ELSE [table_result EXCEPT !.pc = "returned",
                                       !.value = md_table_header \o Join("", md_rows)]
    /\ UNCHANGED <<table_args, lock, parser_run, loaders>>

TableNext == CheckAlignment \/ ParseMarkup \/ Headings \/ Row \/ Render

TableSpec == TableInit /\ [][TableNext]_vars

---------------------------------------------------------------------------
Next ==
    \/ PdfRetrieve \/ PdfElement \/ PdfFinish
    \/ GenericRetrieve \/ GenericElement \/ GenericPaged \/ GenericSingle
    \/ GenericFinish

Spec == Init /\ [][Next]_vars

---------------------------------------------------------------------------
(* Properties *)

CategoryOf(e) == Or(e.category, e.type)

Categories(elements) == {CategoryOf(elements[i]) : i \in DOMAIN elements}

\* the text of an input element as the assembly sees it, i.e. post-processed
TextOf(e) == ApplyPostProcessors(post_processors, e.text)

Texts(elements) == [i \in DOMAIN elements |-> TextOf(elements[i])]

\* the fragment section 4.5 of the specification gives each category
RECURSIVE ExpectedFragments(_)
ExpectedFragments(elements) ==
    IF elements = <<>> THEN <<>>
    ELSE LET e == Head(elements)
             c == CategoryOf(e)
             f == CASE c = "Title" -> <<"# " \o TextOf(e)>>
                    [] c \in {"Header", "Footer", "PageBreak"} -> <<>>
                    [] c = "Image" ->
                         IF "image_path" \in DOMAIN e.metadata
                            /\ images_parser(e.metadata["image_path"]) /= ""
                         THEN <<images_parser(e.metadata["image_path"])>> ELSE <<>>
                    [] c = "Table" ->
                         <<_convert_table(extract_tables, Get(e.metadata, "text_as_html")).text>>
                    [] OTHER -> <<TextOf(e)>>
         IN  f \o ExpectedFragments(Tail(elements))

\* the pages of an element list: the runs of elements between PageBreak elements
RECURSIVE PageSegments(_)
PageSegments(elements) ==
    IF elements = <<>> THEN << <<>> >>
    ELSE LET rest == PageSegments(Tail(elements))
         IN  IF CategoryOf(Head(elements)) = "PageBreak"
             THEN << <<>> >> \o rest
             ELSE << <<Head(elements)>> \o rest[1] >> \o Tail(rest)

NoTableImagePageBreak ==
    Categories(source_elements) \cap {"Table", "Image", "PageBreak"} = {}

\* C1 as stated, on the PDF parser's assembly: in single mode, for an element list
\* without Table, Image and PageBreak, the one Document's page_content is the
\* newline-join of the texts of all input elements, in order.
C1_SingleIsJoinOfTexts ==
    (parser = "pdf" /\ mode = "single" /\ pc = "done" /\ NoTableImagePageBreak)
        => /\ Len(docs) = 1
           /\ docs[1].page_content = Join("\n", Texts(source_elements))

\* C1 as amended: in single mode of the PDF parser, for an element list without
\* Table, Image and PageBreak, the one Document's page_content is the newline-join,
\* in input order, of the fragments of the elements other than Header and Footer,
\* a fragment being the element's text, prefixed with "# " for a Title.
C1_SingleIsJoinOfFragments ==
    (parser = "pdf" /\ mode = "single" /\ pc = "done" /\ NoTableImagePageBreak)
        => /\ Len(docs) = 1
           /\ docs[1].page_content = Join("\n", ExpectedFragments(source_elements))

C1_Witness ==
    /\ parser = "pdf" /\ mode = "single" /\ pc = "done"
    /\ source_elements = <<ElHeader, ElTitle, ElNarrative>>
    /\ post_processors = <<"clean">>
    /\ Len(docs) = 1
    /\ docs[1].page_content = "# clean(Intro)\nclean(Hello)"

\* C2: in single mode with the default delimiter, [Title("Intro"),
\* NarrativeText("Hello"), PageBreak, NarrativeText("World")] gives exactly one
\* Document with page_content "# Intro\nHello\n\nWorld".
C2_SingleScenario ==
    (parser = "pdf" /\ mode = "single" /\ pc = "done"
     /\ source_elements = Scenario /\ post_processors = <<>>)
        => /\ Len(docs) = 1
           /\ docs[1].page_content = "# Intro\nHello\n\nWorld"

\* C3: in page mode the n-th Document (from 0) carries page index n and holds exactly
\* the fragments of the elements between the n-th PageBreak (or the start) and the
\* next one, in order; the scenario list gives page 0 "# Intro\nHello" and page 1
\* "World".
C3_PageDocuments ==
    (parser = "pdf" /\ mode = "page" /\ pc \in {"loop", "done"})
        => /\ Len(docs) <= Len(PageSegments(source_elements))
           /\ \A n \in 1..Len(docs) :
                /\ docs[n].metadata["page"] = n - 1
                /\ docs[n].page_content =
                       Join("\n", ExpectedFragments(PageSegments(source_elements)[n]))
           /\ (pc = "done" /\ source_elements = Scenario /\ post_processors = <<>>)
                => /\ Len(docs) = 2
                   /\ docs[1].page_content = "# Intro\nHello"
                   /\ docs[1].metadata["page"] = 0
                   /\ docs[2].page_content = "World"
                   /\ docs[2].metadata["page"] = 1

C3_Witness ==
    /\ parser = "pdf" /\ mode = "page" /\ pc = "done"
    /\ source_elements = Scenario /\ post_processors = <<>>
    /\ Len(docs) = 2
    /\ docs[2].page_content = "World"

\* C4 as stated: in page mode no Document is emitted for a page that received no
\* non-PageBreak element.
C4_NoDocumentForEmptyPage ==
    (parser = "pdf" /\ mode = "page")
        => \A n \in 1..Len(docs) : PageSegments(source_elements)[n] /= <<>>

\* C4 as amended: in page mode every PageBreak emits the Document of the page it
\* closes, and after the last PageBreak (or without any) a Document is emitted
\* only if a non-PageBreak element followed: a list whose last element is a PageBreak
\* yields no trailing empty Document.
C4_NoTrailingEmptyDocument ==
    (parser = "pdf" /\ mode = "page" /\ pc = "done")
        => LET segments == PageSegments(source_elements)
               breaks == Len(segments) - 1
           IN  /\ Len(docs) \in {breaks, breaks + 1}
               /\ Len(docs) = breaks + 1 => segments[breaks + 1] /= <<>>

C4_Witness ==
    /\ parser = "pdf" /\ mode = "page" /\ pc = "done"
    /\ source_elements = <<ElNarrative, ElPageBreak>>
    /\ Len(docs) = 1
    /\ docs[1].page_content = TextOf(ElNarrative)

\* C5: in elements mode the number of Documents equals the number of input
\* elements, whatever their categories.
C5_OneDocumentPerElement ==
    mode = "elements"
        => /\ Len(docs) = idx
           /\ pc = "done" => Len(docs) = Len(source_elements)

C5_Witness ==
    /\ mode = "elements" /\ pc = "done"
    /\ {"PageBreak", "Header", "Footer"} \subseteq Categories(source_elements)
    /\ Len(docs) = 3

\* C6: in single mode exactly one Document is emitted once the element list is
\* exhausted, and none before, also for the empty list and for lists whose
\* elements contribute nothing (the Document then has empty content).
C6_SingleEmitsExactlyOne ==
    mode = "single"
        => /\ pc \in {"start", "loop"} => docs = <<>>
           /\ pc = "done" => Len(docs) = 1
           /\ (pc = "done" /\ parser = "pdf"
               /\ Categories(source_elements) \subseteq {"Header", "Footer"})
                => docs[1].page_content = ""

C6_Witness ==
    /\ parser = "pdf" /\ mode = "single" /\ pc = "done"
    /\ source_elements = <<>>
    /\ Len(docs) = 1
    /\ docs[1].page_content = ""

\* C7: in elements mode the k-th Document has the (post-processed) text of the k-th
\* input element as page_content and that element's id as element_id.
C7_ElementsInOrder ==
    mode = "elements"
        => \A k \in 1..Len(docs) :
             /\ docs[k].page_content = TextOf(source_elements[k])
             /\ docs[k].metadata["element_id"] = source_elements[k].element_id

\* C8: a remote partition call answered with a status other than 200 ends the run
\* with an error carrying that status, and no Document is yielded, in every mode.
C8_Non200Raises ==
    (status_code /= 0 /\ status_code /= 200)
        => /\ pc = "error"
           /\ error.type = "ValueError"
           /\ error.status_code = status_code
           /\ error.message = "Receive unexpected status code " \o ToString(status_code)
                              \o " from the API."
           /\ docs = <<>>

C8_Witness ==
    /\ pc = "error" /\ status_code = 201 /\ partition_via_api
    /\ mode = "page" /\ source_elements /= <<>> /\ docs = <<>>

\* the document-level metadata base of the running parser
MetadataBase == IF parser = "pdf" THEN _purge_metadata(_get_metadata) ELSE BlobMetadata

\* C9: in elements mode every metadata entry of the k-th Document comes from the
\* document-level base or from the k-th element: none is left over from an earlier
\* element.
C9_FreshMetadata ==
    mode = "elements"
        => \A k \in 1..Len(docs) : \A key \in DOMAIN docs[k].metadata :
             \/ key \in {"category", "element_id"}
             \/ /\ key \in DOMAIN source_elements[k].metadata
                /\ docs[k].metadata[key] = source_elements[k].metadata[key]
             \/ /\ key \in DOMAIN MetadataBase
                /\ docs[k].metadata[key] = MetadataBase[key]

\* C10: an element's own metadata map holds, after lazy_load consumed the element,
\* exactly the entries it had when the element source returned it.
C10_ElementMetadataUntouched ==
    parser = "pdf"
        => \A i \in 1..idx : elements_json[i].metadata = source_elements[i].metadata

\* C11: every Document that _SingleDocumentLoader.lazy_load yields for an element
\* keeps the document-level filename, never the element's; its category is the
\* element's category, or the element's type when it has no category; its
\* element_id is the element's.
C11_LoaderMetadata ==
    (parser = "pdf" /\ mode = "elements")
        => \A k \in 1..Len(docs) :
             LET e == source_elements[k]
                 m == docs[k].metadata
             IN  /\ m["filename"] = _get_metadata["filename"]
                 /\ m["category"] = (IF e.category /= None THEN e.category ELSE e.type)
                 /\ m["element_id"] = e.element_id

C11_Witness ==
    /\ parser = "pdf" /\ mode = "elements" /\ pc = "done"
    /\ source_elements = <<ElNarrative, ElCategorized>>
    /\ docs[2].metadata["filename"] = "a.pdf"
    /\ docs[2].metadata["category"] = "NarrativeText"
    /\ docs[1].metadata["category"] = "NarrativeText"
    /\ docs[2].metadata["element_id"] = "e-chunk"

\* C12: no Document emitted in elements mode has a metadata key whose value is
\* null or empty, wherever the entry comes from.
C12_NoEmptyValues ==
    mode = "elements"
        => \A k \in 1..Len(docs) : \A key \in DOMAIN docs[k].metadata \ IntKeys :
             docs[k].metadata[key] \notin {None, ""}

\* C13: in elements mode of the generic parser the Document of an element holds,
\* for every key of the element's own metadata (filename included), the element's
\* value, and for every other key of the document-level metadata, the
\* document-level value.
C13_ElementMetadataOverrides ==
    (parser = "generic" /\ mode = "elements")
        => \A k \in 1..Len(docs) :
             LET e == source_elements[k]
                 m == docs[k].metadata
             IN  /\ \A key \in DOMAIN e.metadata :
                       key \in DOMAIN m /\ m[key] = e.metadata[key]
                 /\ \A key \in DOMAIN BlobMetadata \ DOMAIN e.metadata :
                       key \in DOMAIN m /\ m[key] = BlobMetadata[key]

C13_Witness ==
    /\ parser = "generic" /\ mode = "elements" /\ pc = "done"
    /\ source_elements = <<ElNarrative, ElTitle>>
    /\ docs[2].metadata["filename"] = "part.pdf"
    /\ docs[2].metadata["source"] = BlobPath

\* C14: in single mode of the generic parser the one Document's metadata holds
\* the source identifier and, besides, the metadata entries of the source's
\* elements.
C14_SingleCarriesElementMetadata ==
    (parser = "generic" /\ mode = "single" /\ pc = "done")
        => /\ Len(docs) = 1
           /\ "source" \in DOMAIN docs[1].metadata
           /\ docs[1].metadata["source"] = blob.source
           /\ \A i \in DOMAIN source_elements :
                \A key \in DOMAIN source_elements[i].metadata :
                    key \in DOMAIN docs[1].metadata

\* an input element on which table rendering or image-text substitution fails
FailsOn(e) ==
    \/ /\ CategoryOf(e) = "Image"
       /\ "image_path" \in DOMAIN e.metadata
       /\ e.metadata["image_path"] = "missing.jpg"
    \/ /\ CategoryOf(e) = "Table"
       /\ Truthy(extract_tables)
       /\ Truthy(Get(e.metadata, "text_as_html"))
       /\ extract_tables \notin {"html", "markdown", "csv"}

\* number of PageBreak elements among the first n input elements
PageBreaksBefore(n) ==
    Cardinality({j \in 1..n : CategoryOf(source_elements[j]) = "PageBreak"})

\* C15: in single and page mode a failure of table rendering or image-text
\* substitution on an element ends the run at that element with the error: no
\* consumed element is a failing one unless the run stopped on it, the Documents
\* are those of the pages closed before it, and nothing runs after the failure.
C15_FailureAborts ==
    (parser = "pdf" /\ mode \in {"single", "page"})
        => /\ \A i \in 1..idx :
                FailsOn(source_elements[i])
                    => /\ pc = "error" /\ idx = i
                       /\ error.type \in {"ValueError", "FileNotFoundError"}
           /\ (pc = "error" /\ idx > 0)
                => /\ FailsOn(source_elements[idx])
                   /\ Len(docs) = (IF mode = "page" THEN PageBreaksBefore(idx - 1) ELSE 0)
                   /\ ~ENABLED Next

C15_Witness ==
    /\ parser = "pdf" /\ mode = "page" /\ pc = "error"
    /\ source_elements = <<ElNarrative, ElPageBreak, ElImageBad>>
    /\ idx = 3
    /\ error.type = "FileNotFoundError"
    /\ Len(docs) = 1

\* C16: a configuration error (here: a table target that is none of csv, markdown
\* and html) reaches the caller before any Document of the run has been yielded,
\* in every output mode.
C16_ConfigErrorBeforeOutput ==
    (pc = "error" /\ error.message = "extract_tables must be csv, markdown or html")
        => docs = <<>>

\* C20: with remote partitioning on, a run issues exactly one remote partition
\* request, made when the first Document is requested, whatever the mode, the
\* post-processors and the number of Documents pulled afterwards; with remote
\* partitioning off it issues none.
C20_OneRemoteRequest ==
    /\ partition_via_api => requests = (IF pc = "start" THEN 0 ELSE 1)
    /\ ~partition_via_api => requests = 0

C20_Witness ==
    /\ partition_via_api /\ post_processors = <<"clean">>
    /\ parser = "pdf" /\ mode = "elements" /\ pc = "done"
    /\ Len(docs) = 3
    /\ requests = 1

\* all Documents of the first n files of a multi-file run, in order
RECURSIVE DocsOfFiles(_)
DocsOfFiles(n) ==
    IF n = 0 THEN <<>>
    ELSE DocsOfFiles(n - 1) \o [k \in 1..loader_files[n].elements |-> <<n, k>>]

InSpan(l) == gen_pc[l] \in {"retrieving", "suspended"}

\* C18: across all threads and loader instances, at most one lazy_load is at any
\* time between the start of its element retrieval and the end of the conversion
\* of its elements, and the lock is held exactly then.
C18_MutualExclusion ==
    /\ Cardinality({l \in Loaders : InSpan(l)}) <= 1
    /\ lock <=> \E l \in Loaders : InSpan(l)

C18_Witness ==
    /\ gen_pc[1] = "suspended" /\ gen_pc[2] = "blocked"
    /\ loader_files[1].thread /= loader_files[2].thread
    /\ gen_yielded[1] = 1

\* C19: once a consumer has stopped requesting Documents from a lazy sequence
\* that is not exhausted, nothing shared stays held on behalf of that sequence:
\* its lazy_load does not hold the lock, so that a lazy_load started afterwards
\* is not kept waiting by it.
C19_NothingHeldAfterStop ==
    \A l \in Loaders : gen_stopped[l] => ~(lock /\ InSpan(l))

\* C24: the shared lock is held only while elements are retrieved and normalized:
\* whenever a lazy_load is suspended at a yield, control being with its consumer,
\* that lazy_load does not hold the lock.
C24_LockFreeAtYield ==
    \A l \in Loaders : gen_pc[l] = "suspended" => ~lock

\* some next() call that is under way or can be made goes on
RequestProgress ==
    \E l \in Loaders : Enter(l) \/ Acquire(l) \/ Retrieve(l) \/ Resume(l)

\* C25: a single thread that requests Documents in turn from the lazy sequences
\* of two loaders, each producing at least two Documents, obtains every Document
\* of both: as long as a Document is outstanding, a request goes on.
C25_AlternationCompletes ==
    (/\ ~multi_file
     /\ \A l \in Loaders :
          /\ loader_files[l].thread = "t1"
          /\ loader_files[l].elements >= 2
          /\ ~loader_files[l].raises
          /\ ~gen_stopped[l])
        => \/ \A l \in Loaders : gen_yielded[l] = loader_files[l].elements
           \/ ENABLED RequestProgress

\* C21: a parser exists only with a recognized mode: constructed with any other
\* mode, the constructor raises the ValueError of the mode check and nothing is
\* parsed; constructed with a recognized mode, self.mode is that mode ("page" for
\* the PDF parser's deprecated "paged"); and self.mode never changes afterwards
C21_ModeFixedAtConstruction ==
    /\ [](parser \in {"pdf", "generic"} =>
            IF mode_arg \in _valid_modes[parser]
            THEN /\ mode \in _valid_modes[parser]
                 /\ mode = (IF parser = "pdf" /\ mode_arg = "paged" THEN "page"
                            ELSE mode_arg)
                 /\ error /= ModeError(mode_arg)
            ELSE /\ mode = None
                 /\ error = ModeError(mode_arg)
                 /\ pc = "error"
                 /\ docs = <<>>)
    /\ [][mode' = mode]_vars

\* construction with "pages", which neither parser recognizes, has raised
C21_Witness ==
    /\ parser \in {"pdf", "generic"}
    /\ mode_arg \notin _valid_modes[parser]
    /\ error = ModeError(mode_arg)

\* the page an element is said to belong to: its own page_number, or 1
AssignedPage(element) ==
    IF "page_number" \in DOMAIN element.metadata THEN element.metadata["page_number"]
    ELSE 1

\* the assigned pages of `elements`, each once, in the order they first occur
RECURSIVE AssignedPages(_)
AssignedPages(elements) ==
    IF elements = <<>> THEN <<>>
    ELSE LET before == AssignedPages(SubSeq(elements, 1, Len(elements) - 1))
             pn == AssignedPage(elements[Len(elements)])
         IN  IF \E i \in DOMAIN before : before[i] = pn THEN before
             ELSE Append(before, pn)

\* the text of the elements assigned to page pn, each followed by a blank line
RECURSIVE AssignedText(_, _)
AssignedText(elements, pn) ==
    IF elements = <<>> THEN ""
    ELSE (IF AssignedPage(Head(elements)) = pn THEN StrElement(Head(elements)) \o "\n\n"
          ELSE "") \o AssignedText(Tail(elements), pn)

\* C30: in paged mode of the generic parser an element without a page_number is
\* grouped into page 1 whatever came before it, and there is one Document per
\* distinct page number so assigned, holding the text of that page's elements
C30_PagedGrouping ==
    (parser = "generic" /\ mode = "paged" /\ pc = "done")
        => LET pages == AssignedPages(elements_json)
           IN  /\ Len(docs) = Len(pages)
               /\ \A i \in DOMAIN docs :
                     docs[i].page_content = AssignedText(elements_json, pages[i])

\* the page_content of each Document of a sequence
Contents(documents) == [i \in DOMAIN documents |-> documents[i].page_content]

NotHeaderFooter(e) == CategoryOf(e) \notin {"Header", "Footer"}

\* the run of lazy_parse is the function lazy_parse of the element list
RunIsLazyParse ==
    (parser = "pdf" /\ mode \in {"single", "page"} /\ pc = "done")
        => docs = lazy_parse(mode, file_metadata, extract_tables, elements_json)

\* C26: in single and page mode the Documents of a run have the same number and the
\* same page_content as those of the run on the input without its Header and Footer
\* elements
C26_HeaderFooterContributeNothing ==
    (parser = "pdf" /\ mode \in {"single", "page"} /\ pc = "done")
        => Contents(docs) =
               Contents(lazy_parse(mode, file_metadata, extract_tables,
                                   SelectSeq(elements_json, NotHeaderFooter)))

\* an Image without image_path, or one the image parser reads no text from
NotSilentImage(e) ==
    ~(/\ CategoryOf(e) = "Image"
      /\ \/ "image_path" \notin DOMAIN e.metadata
         \/ ~Truthy(images_parser(e.metadata["image_path"])))

\* C27: in single and page mode the page_content of every Document of a run is what
\* it is for the run on the input without its Images that have no image_path or no
\* recognized text
C27_SilentImageContributesNothing ==
    (parser = "pdf" /\ mode \in {"single", "page"} /\ pc = "done")
        => Contents(docs) =
               Contents(lazy_parse(mode, file_metadata, extract_tables,
                                   SelectSeq(elements_json, NotSilentImage)))

\* the collection a delimiter enters only together with a following fragment: each
\* PageBreak adds one pending delimiter, the next fragment is appended behind the
\* pending ones, and delimiters still pending at the end are dropped
RECURSIVE DelimitedBeforeNext(_, _, _, _)
DelimitedBeforeNext(fm, et, elements, pending) ==
    IF elements = <<>> THEN <<>>
    ELSE LET doc == LoadedDocument(fm, Head(elements))
             fragment == Fragment(doc, et)
         IN  IF Get(doc.metadata, "category") = "PageBreak"
             THEN DelimitedBeforeNext(fm, et, Tail(elements),
                                      Append(pending, pages_delimitor))
             ELSE IF fragment = <<>>
             THEN DelimitedBeforeNext(fm, et, Tail(elements), pending)
             ELSE pending \o fragment \o DelimitedBeforeNext(fm, et, Tail(elements), <<>>)

\* C28: in single mode a PageBreak yields no Document (the run yields one), and its
\* delimiter stands once, immediately before the next appended fragment; a
\* PageBreak that no fragment follows leaves no delimiter
C28_DelimiterBeforeNextFragment ==
    (parser = "pdf" /\ mode = "single" /\ pc = "done")
        => /\ Len(docs) = 1
           /\ docs[1].page_content =
                  Join("\n", DelimitedBeforeNext(file_metadata, extract_tables,
                                                 elements_json, <<>>))

\* C29: the document-level metadata of a PDF run stays as it was built, whatever
\* was emitted; in page mode every Document carries it with a `page` entry added,
\* so two Documents differ at most in `page`; in single mode the Document carries
\* it without a `page` entry
C29_SharedDocumentMetadata ==
    (parser = "pdf" /\ mode \in {"page", "single"} /\ pc /= "start" /\ ~byte_stream)
        => /\ metadata = doc_metadata
           /\ \A i \in DOMAIN docs :
                 IF mode = "page"
                 THEN /\ "page" \in DOMAIN docs[i].metadata
                      /\ Pop(docs[i].metadata, "page") = doc_metadata
                 ELSE /\ "page" \notin DOMAIN docs[i].metadata
                      /\ docs[i].metadata = doc_metadata

\* a page-mode run has emitted two Documents, for two pages
C29_Witness ==
    /\ parser = "pdf" /\ mode = "page" /\ pc = "done"
    /\ Len(docs) >= 2
    /\ docs[1].metadata["page"] /= docs[2].metadata["page"]

\* C22: local extraction from a blob of bytes, which brings no metadata_filename,
\* stops with the metadata_filename ValueError before the elements are retrieved,
\* and yields no Document
C22_ByteStreamNeedsFilename ==
    (parser \in {"pdf", "generic"} /\ byte_stream /\ ~partition_via_api)
        => /\ docs = <<>>
           /\ pc \in {"start", "error"}
           /\ pc = "error" => error = FilenameError

\* C23: a call of convert_table with an alignment other than left, center or right
\* goes no further than the alignment check: it raises the ValueError of that check
\* with the markup not parsed and no row processed, whatever the markup is
C23_AlignmentCheckedFirst ==
    (table_args.all_cols_alignment \notin {"left", "center", "right"})
        => /\ table_result.pc \in {"called", "raised"}
           /\ table_result.pc = "raised" => table_result.error = AlignmentError
           /\ ~table_result.parsed
           /\ table_result.rows = 0
           /\ table_result.table_body = <<>>
           /\ table_result.value = None

\* the call with "center-ish" on a markup without any tag has raised
C23_Witness ==
    /\ table_args.all_cols_alignment = "center-ish"
    /\ ~table_args.html.tags
    /\ table_result.pc = "raised"
    /\ table_result.error = AlignmentError

============================================================================
